---- MODULE Spec2Model ----
(***************************************************************************)
(* Model of the EU export compliance pipeline: the product page fetcher    *)
(* (fetchProductPage), the extractor (parseKokubuProduct), the verdict     *)
(* requesters (callGeminiApi, callOpenAIResponsesApi), the verdict parser  *)
(* (parseGeminiResponse) and the callers that feed them (the page, the     *)
(* analyze API route).                                                     *)
(*                                                                         *)
(* Each component is checked under its own specification; the variables of *)
(* the other components stay at their idle values.                         *)
(***************************************************************************)
EXTENDS Integers, Sequences, FiniteSets, TLC

VARIABLES
    \* ---- verdict requester (callGeminiApi / callOpenAIResponsesApi)
    callee,      \* which requester this call runs: "gemini" or "openai"
    rq_pc,       \* "idle" | "fetch" (attempt in flight) | "sleep" (backoff timer) | "returned" | "thrown"
    i,           \* loop variable of callGeminiApi
    attempt,     \* loop variable of callOpenAIResponsesApi
    delay,       \* callGeminiApi's current delay, ms
    attempts,    \* network attempts issued so far by this call
    delays,      \* the backoff delays taken so far, ms, in order
    outcomes,    \* what each settled attempt received, in order
    sleptAfter,  \* for each backoff delay, the attempt number it followed
    reply,       \* the value returned (NoReply until then)
    rq_error,    \* the error thrown ("" until then)
    \* ---- fetcher (fetchProductPage)
    ft_pc,       \* "idle" | "direct" | "proxy" | "returned" | "thrown"
    px,          \* index i of the relay loop (0-based)
    errors,      \* the errors array of fetchProductPage
    tried,       \* strategies attempted so far, in order
    results,     \* what each attempted strategy answered, in order
    html,        \* the body returned (NoHtml until then)
    ft_error,    \* the messages carried by the thrown error (<<>> until then)
    \* ---- extractor (parseKokubuProduct)
    ex_pc,       \* "idle" | "returned" | "thrown"
    doc,         \* the parsed document: body text, row layout, name elements
    ex_result,   \* the ProductData returned (NoProduct until then)
    \* ---- verdict parser (parseGeminiResponse)
    ps_pc,        \* "idle" | "returned" | "thrown"
    responseText, \* response.candidates[0]?.content.parts[0]?.text
    parsed,       \* the AnalysisResult returned (NoResult until then)
    ps_error,     \* the error thrown ("" until then)
    \* ---- verdict parser of the OpenAI provider (parseOpenAIResponse)
    oa_pc,        \* "idle" | "returned"
    content,      \* response.choices[0]?.message?.content || ""
    oa_parsed,    \* the AnalysisResult returned (NoResult until then)
    \* ---- analysis call (analyzeWithGemini, analyzeWithOpenAI)
    an_pc,        \* "idle" | "calling" (request handed to the requester) | "thrown"
    an_args,      \* the provider called and the arguments of the call
    an_env,       \* process.env: GEMINI_API_KEY, OPENAI_API_KEY ("" when unset)
    an_request,   \* the prompt and the key handed to the requester
    \* ---- callers: the page (Home) and the analyze API route (POST)
    caller,          \* which caller this run follows: "page" or "route"
    GEMINI_API_KEY,  \* process.env.GEMINI_API_KEY ("" when unset)
    productUrl,      \* useState: productUrl
    apiKey,          \* useState: apiKey
    isLoading,       \* useState: isLoading
    progressMessage, \* useState: progressMessage
    showProgress,    \* useState: showProgress
    productData,     \* useState: productData (NoData for null)
    showReview,      \* useState: showReview
    analysisResult,  \* useState: analysisResult (NoAnalysis for null)
    showResults,     \* useState: showResults
    error,           \* useState: error (NoError for null)
    showError,       \* useState: showError
    fetching,        \* runs of handleAnalyze awaiting fetchProductPage
    analyzing,       \* runs of handleConfirmAnalysis awaiting analyzeWithGemini
    timers,          \* pending review-reveal timers (setTimeout 1000)
    route_pc,        \* "idle" | "awaiting" (analyzeWithGemini pending) | "responded"
    route_status,    \* status of the route's response (0 until then)
    lastRequest,     \* the latest analysis request that reached the service
    \* ---- results section (ComplianceResults)
    bn_pc,        \* "idle" | "rendered"
    bn_props,     \* the props of the render: show, result (its verdict, or null)
    bn_severity   \* severity of the verdict banner ("none": nothing rendered)

rqVars == <<callee, rq_pc, i, attempt, delay, attempts, delays, outcomes,
            sleptAfter, reply, rq_error>>
ftVars == <<ft_pc, px, errors, tried, results, html, ft_error>>
exVars == <<ex_pc, doc, ex_result>>
psVars == <<ps_pc, responseText, parsed, ps_error>>
oaVars == <<oa_pc, content, oa_parsed>>
anVars == <<an_pc, an_args, an_env, an_request>>
pageVars == <<productUrl, apiKey, isLoading, progressMessage, showProgress, productData,
              showReview, analysisResult, showResults, error, showError, fetching,
              analyzing, timers>>
routeVars == <<route_pc, route_status>>
clVars == <<caller, GEMINI_API_KEY, pageVars, routeVars, lastRequest>>
bnVars == <<bn_pc, bn_props, bn_severity>>

\* ------------------------------------------------------------------------
\* Shared helpers
\* ------------------------------------------------------------------------

RECURSIVE Pow2(_)
Pow2(n) == IF n = 0 THEN 1 ELSE 2 * Pow2(n - 1)

\* Text is a sequence of atoms. " " and "\n" are the whitespace atoms (a
\* blank and a line break); every other atom is a non-whitespace token.
IsWs(c) == c \in {" ", "\n"}

\* Number of consecutive whitespace atoms of t from position p on.
RECURSIVE WsRun(_, _)
WsRun(t, p) == IF p <= Len(t) /\ IsWs(t[p]) THEN 1 + WsRun(t, p + 1) ELSE 0

\* Number of trailing whitespace atoms of t.
RECURSIVE WsTail(_)
WsTail(t) == IF Len(t) > 0 /\ IsWs(t[Len(t)]) THEN 1 + WsTail(SubSeq(t, 1, Len(t) - 1)) ELSE 0

\* String.prototype.trim
Trim(t) ==
    IF WsRun(t, 1) = Len(t) THEN <<>>
    ELSE SubSeq(t, WsRun(t, 1) + 1, Len(t) - WsTail(t))

\* Last position q >= p - 1 such that t[p..q] holds no atom of stop.
RECURSIVE RunEnd(_, _, _)
RunEnd(t, p, stop) ==
    IF p <= Len(t) /\ t[p] \notin stop THEN RunEnd(t, p + 1, stop) ELSE p - 1

\* ------------------------------------------------------------------------
\* Verdict requester
\* ------------------------------------------------------------------------

\* Mutation of retries: one attempt too many.
retries_OneMore == 3 + 1

retries == 3             \* callGeminiApi: const retries = 3
maxRetries == 3          \* callOpenAIResponsesApi: const maxRetries = 3
InitialDelay == 1000     \* callGeminiApi: let delay = 1000

NoReply == [attempt |-> 0]

\* HTTP statuses the simulated service answers with.
Statuses == {200, 400, 404, 429, 500, 503}

\* What one fetch() of callGeminiApi can settle with: a rejection (transport
\* exception), or a response with a status whose body either reads as JSON
\* or makes response.json() reject.
GeminiOutcomes ==
    {[type |-> "exception", status |-> 0, body |-> "none"]}
    \cup [type : {"response"}, status : Statuses, body : {"json", "bad"}]

ResponseOk(o) == o.type = "response" /\ o.status >= 200 /\ o.status <= 299

\* if (response.status === 429 || response.status >= 500)
RetryableStatus(o) == o.type = "response" /\ (o.status = 429 \/ o.status >= 500)

\* What one client.chat.completions.create() can settle with: a completion,
\* or an error whose message contains some of the substrings the catch block
\* looks for.
OpenAIMarkers == {"429", "rate_limit", "5"}
OpenAIOutcomes ==
    {[type |-> "completion", marks |-> {}]}
    \cup [type : {"error"}, marks : SUBSET OpenAIMarkers]

\* errorMessage.includes("429") || includes("rate_limit") || includes("5")
OpenAIRetryable(o) ==
    o.type = "error" /\ ("429" \in o.marks \/ "rate_limit" \in o.marks \/ "5" \in o.marks)

\* A call of either requester is about to start.
StartRequester ==
    /\ callee \in {"gemini", "openai"}
    /\ rq_pc = "idle"
    /\ i = 0
    /\ attempt = 0
    /\ delay = InitialDelay
    /\ attempts = 0
    /\ delays = <<>>
    /\ outcomes = <<>>
    /\ sleptAfter = <<>>
    /\ reply = NoReply
    /\ rq_error = ""

\* Entering callGeminiApi: the loop starts at i = 0 and issues the first fetch.
CallGeminiApi ==
    /\ callee = "gemini" /\ rq_pc = "idle"
    /\ rq_pc' = "fetch"
    /\ attempts' = attempts + 1
    /\ UNCHANGED <<callee, i, attempt, delay, delays, outcomes, sleptAfter, reply, rq_error>>

\* Mutation of GeminiCatch: the loop goes on without the wait.
GeminiCatch_NoWait(err) ==
    IF i = retries - 1
    THEN /\ rq_pc' = "thrown"
         /\ rq_error' = err
         /\ UNCHANGED <<delays, sleptAfter>>
    ELSE /\ rq_pc' = "sleep"
         /\ UNCHANGED <<delays, sleptAfter, rq_error>>

\* The catch block of callGeminiApi, entered with error err.
GeminiCatch(err) ==
    IF i = retries - 1
    THEN /\ rq_pc' = "thrown"
         /\ rq_error' = err
         /\ UNCHANGED <<delays, sleptAfter>>
    ELSE /\ rq_pc' = "sleep"
         /\ delays' = Append(delays, delay)
         /\ sleptAfter' = Append(sleptAfter, i + 1)
         /\ UNCHANGED rq_error

\* The body of the try block once the fetch of attempt i+1 has settled with o,
\* up to the next suspension point.
GeminiFetchSettles(o) ==
    /\ callee = "gemini" /\ rq_pc = "fetch"
    /\ outcomes' = Append(outcomes, o)
    /\ IF o.type = "exception"
       THEN GeminiCatch("fetch failed") /\ UNCHANGED reply
       ELSE IF ResponseOk(o)
       THEN IF o.body = "json"
            THEN /\ rq_pc' = "returned"
                 /\ reply' = [attempt |-> i + 1]
                 /\ UNCHANGED <<delays, sleptAfter, rq_error>>
            ELSE GeminiCatch("body is not JSON") /\ UNCHANGED reply
       ELSE IF RetryableStatus(o)
       THEN /\ rq_pc' = "sleep"
            /\ delays' = Append(delays, delay)
            /\ sleptAfter' = Append(sleptAfter, i + 1)
            /\ UNCHANGED <<reply, rq_error>>
       ELSE IF o.body = "json"
            THEN GeminiCatch("API Error") /\ UNCHANGED reply
            ELSE GeminiCatch("body is not JSON") /\ UNCHANGED reply
    /\ UNCHANGED <<callee, i, attempt, delay, attempts>>

\* Mutation of GeminiTimerFires: the delay is not doubled.
GeminiTimerFires_NoDoubling ==
    /\ callee = "gemini" /\ rq_pc = "sleep"
    /\ i' = i + 1
    /\ IF i + 1 < retries
       THEN /\ rq_pc' = "fetch"
            /\ attempts' = attempts + 1
            /\ UNCHANGED rq_error
       ELSE /\ rq_pc' = "thrown"
            /\ rq_error' = "Failed to get response from Gemini API after retries"
            /\ UNCHANGED attempts
    /\ UNCHANGED <<callee, attempt, delay, delays, outcomes, sleptAfter, reply>>

\* The backoff timer fires: delay *= 2, the loop increments i and either
\* issues the next fetch or falls out of the loop and throws.
GeminiTimerFires ==
    /\ callee = "gemini" /\ rq_pc = "sleep"
    /\ delay' = delay * 2
    /\ i' = i + 1
    /\ IF i + 1 < retries
       THEN /\ rq_pc' = "fetch"
            /\ attempts' = attempts + 1
            /\ UNCHANGED rq_error
       ELSE /\ rq_pc' = "thrown"
            /\ rq_error' = "Failed to get response from Gemini API after retries"
            /\ UNCHANGED attempts
    /\ UNCHANGED <<callee, attempt, delays, outcomes, sleptAfter, reply>>

\* Entering callOpenAIResponsesApi: attempt = 0, first create() issued.
CallOpenAIResponsesApi ==
    /\ callee = "openai" /\ rq_pc = "idle"
    /\ rq_pc' = "fetch"
    /\ attempts' = attempts + 1
    /\ UNCHANGED <<callee, i, attempt, delay, delays, outcomes, sleptAfter, reply, rq_error>>

\* create() of attempt+1 settles with o.
OpenAISettles(o) ==
    /\ callee = "openai" /\ rq_pc = "fetch"
    /\ outcomes' = Append(outcomes, o)
    /\ IF o.type = "completion"
       THEN /\ rq_pc' = "returned"
            /\ reply' = [attempt |-> attempt + 1]
            /\ UNCHANGED <<delays, sleptAfter, rq_error>>
       ELSE IF OpenAIRetryable(o)
       THEN /\ rq_pc' = "sleep"
            /\ delays' = Append(delays, Pow2(attempt) * 1000)
            /\ sleptAfter' = Append(sleptAfter, attempt + 1)
            /\ UNCHANGED <<reply, rq_error>>
       ELSE /\ rq_pc' = "thrown"
            /\ rq_error' = "error rethrown"
            /\ UNCHANGED <<delays, sleptAfter, reply>>
    /\ UNCHANGED <<callee, i, attempt, delay, attempts>>

\* The wait of the catch block ends: continue, attempt++, next create() or
\* the throw after the loop.
OpenAITimerFires ==
    /\ callee = "openai" /\ rq_pc = "sleep"
    /\ attempt' = attempt + 1
    /\ IF attempt + 1 < maxRetries
       THEN /\ rq_pc' = "fetch"
            /\ attempts' = attempts + 1
            /\ UNCHANGED rq_error
       ELSE /\ rq_pc' = "thrown"
            /\ rq_error' = "OpenAI API failed after attempts"
            /\ UNCHANGED attempts
    /\ UNCHANGED <<callee, i, delay, delays, outcomes, sleptAfter, reply>>

\* The requester is not part of the run.
IdleRequester ==
    /\ callee = "gemini"
    /\ rq_pc = "idle"
    /\ i = 0
    /\ attempt = 0
    /\ delay = InitialDelay
    /\ attempts = 0
    /\ delays = <<>>
    /\ outcomes = <<>>
    /\ sleptAfter = <<>>
    /\ reply = NoReply
    /\ rq_error = ""

\* ------------------------------------------------------------------------
\* Fetcher
\* ------------------------------------------------------------------------

\* Mutation of CORS_PROXIES: the first two relays swapped.
CORS_PROXIES_Swapped == <<"corsproxy.io", "allorigins", "codetabs">>

\* const CORS_PROXIES = [allorigins, corsproxy.io, codetabs]
CORS_PROXIES == <<"allorigins", "corsproxy.io", "codetabs">>

NoHtml == "<none>"

\* What one fetch() of fetchProductPage can settle with: a rejection, or a
\* response with a status whose body is empty, is HTML, or fails to read.
FetchStatuses == {200, 403, 500}
FetchOutcomes ==
    {[type |-> "exception", status |-> 0, body |-> "none"]}
    \cup [type : {"response"}, status : FetchStatuses, body : {"", "<html>", "bad"}]

\* errors.push(`Proxy ${i + 1} returned status ${response.status}`)
StatusMessage(n, s) == [proxy |-> n, text |-> "returned status", status |-> s]
\* errors.push(`Proxy ${i + 1}: ${errorMsg}`)
CaughtMessage(n, msg) == [proxy |-> n, text |-> msg, status |-> 0]

StartFetcher ==
    /\ ft_pc = "idle"
    /\ px = 0
    /\ errors = <<>>
    /\ tried = <<>>
    /\ results = <<>>
    /\ html = NoHtml
    /\ ft_error = <<>>

IdleFetcher == StartFetcher

\* Entering fetchProductPage: the direct fetch is issued.
FetchProductPage ==
    /\ ft_pc = "idle"
    /\ ft_pc' = "direct"
    /\ tried' = Append(tried, "direct")
    /\ UNCHANGED <<px, errors, results, html, ft_error>>

\* The direct fetch settles with o. A response that is ok returns its text;
\* anything else is logged and the relay loop starts with its first fetch.
DirectSettles(o) ==
    /\ ft_pc = "direct"
    /\ results' = Append(results, o)
    /\ IF ResponseOk(o) /\ o.body # "bad"
       THEN /\ ft_pc' = "returned"
            /\ html' = o.body
            /\ UNCHANGED <<px, errors, tried, ft_error>>
       ELSE /\ ft_pc' = "proxy"
            /\ px' = 0
            /\ errors' = <<>>
            /\ tried' = Append(tried, CORS_PROXIES[1])
            /\ UNCHANGED <<html, ft_error>>

\* The message the loop body records when the fetch of relay px settles with
\* o and is not returned from.
ProxyFailure(o) ==
    IF o.type = "exception" THEN CaughtMessage(px + 1, "Failed to fetch")
    ELSE IF ResponseOk(o)
         THEN IF o.body = "bad"
              THEN CaughtMessage(px + 1, "body read failed")
              ELSE CaughtMessage(px + 1, "Empty response from proxy")
         ELSE StatusMessage(px + 1, o.status)

\* Mutation of ProxyWins: the emptiness check is dropped.
ProxyWins_AnyBody(o) == ResponseOk(o) /\ o.body # "bad"

\* if (text && text.length > 0) return text
ProxyWins(o) == ResponseOk(o) /\ o.body # "bad" /\ o.body # ""

\* The fetch of relay px settles with o: return its text, or record the
\* failure and go on to the next relay, or throw after the last one.
ProxySettles(o) ==
    /\ ft_pc = "proxy"
    /\ results' = Append(results, o)
    /\ IF ProxyWins(o)
       THEN /\ ft_pc' = "returned"
            /\ html' = o.body
            /\ UNCHANGED <<px, errors, tried, ft_error>>
       ELSE /\ errors' = Append(errors, ProxyFailure(o))
            /\ px' = px + 1
            /\ IF px + 1 < Len(CORS_PROXIES)
               THEN /\ ft_pc' = "proxy"
                    /\ tried' = Append(tried, CORS_PROXIES[px + 2])
                    /\ UNCHANGED <<html, ft_error>>
               ELSE /\ ft_pc' = "thrown"
                    /\ ft_error' = errors'
                    /\ UNCHANGED <<html, tried>>

\* ------------------------------------------------------------------------
\* Extractor
\* ------------------------------------------------------------------------

\* Atoms of a product page's text: "L" is the label 原材料, "N" is 名, ":" is
\* either colon (： or :), "I" is the word Ingredients spelled exactly so, "i"
\* is the same word in another case (ingredients), "x" is any other
\* character, "<" is a less-than sign, " " and "\n" are whitespace.
PageAtoms == {"L", "N", ":", "I", "i", "x", "<", " ", "\n"}

\* The pieces page texts are composed of: labels, and single characters.
Pieces == {<<"L", "N">>, <<"L", ":">>, <<"L">>, <<":">>, <<"I", ":">>, <<"i", ":">>,
           <<"x">>, <<"<">>, <<" ">>, <<"\n">>}

MaxPieces == 4

\* Which elements match 'table tr, .spec-table tr, [class*="ingredient"]':
\* none, one element holding the whole text, or one row per line of text.
Layouts == {"none", "all", "lines"}

\* doc.querySelector(selector) for the four name selectors, in order.
nameSelectors == <<"h1", ".product-name", "[class*=product][class*=name]", "title">>

NoElement == [found |-> FALSE, text |-> <<>>]

NoProduct == [productName |-> <<>>, ingredients |-> <<>>, sourceUrl |-> ""]

UnknownProduct == <<"Unknown Product">>

\* Start of the capture group that follows \s* begun at position e: \s* is
\* greedy and gives whitespace back until the next atom is one the capture's
\* character class accepts (not in stop). 0 when no such position exists.
CaptureStart(t, e, stop) ==
    LET w == WsRun(t, e)
        ok == {k \in 0..w : e + k <= Len(t) /\ t[e + k] \notin stop}
    IN  IF ok = {} THEN 0
        ELSE e + (CHOOSE k \in ok : \A k2 \in ok : k2 <= k)

\* (?:\n(?!\s*$)[^\n]+)* applied greedily after a capture ending at q: a line
\* break is taken with the line after it when the rest of the text is not
\* all whitespace and that line is not empty.
RECURSIVE ExtendLines(_, _)
ExtendLines(t, q) ==
    IF /\ q + 1 <= Len(t)
       /\ t[q + 1] = "\n"
       /\ WsRun(t, q + 2) < Len(t) - (q + 1)
       /\ t[q + 2] # "\n"
    THEN ExtendLines(t, RunEnd(t, q + 2, {"\n"}))
    ELSE q

\* /原材料[名：:]\s*([^\n]+(?:\n(?!\s*$)[^\n]+)*)/i tried at position p: the
\* capture, or <<>> when the pattern does not match there.
Pattern1At(t, p) ==
    IF p + 1 <= Len(t) /\ t[p] = "L" /\ t[p + 1] \in {"N", ":"}
    THEN LET s == CaptureStart(t, p + 2, {"\n"})
         IN  IF s = 0 THEN <<>>
             ELSE SubSeq(t, s, ExtendLines(t, RunEnd(t, s, {"\n"})))
    ELSE <<>>

\* /原材料\s*[：:]\s*([^<\n]+)/i tried at position p.
Pattern2At(t, p) ==
    IF p <= Len(t) /\ t[p] = "L"
    THEN LET c == p + 1 + WsRun(t, p + 1)
         IN  IF c <= Len(t) /\ t[c] = ":"
             THEN LET s == CaptureStart(t, c + 1, {"<", "\n"})
                  IN  IF s = 0 THEN <<>>
                      ELSE SubSeq(t, s, RunEnd(t, s, {"<", "\n"}))
             ELSE <<>>
    ELSE <<>>

\* /ingredients[：:]\s*([^\n]+)/i tried at position p.
Pattern3At(t, p) ==
    IF p + 1 <= Len(t) /\ t[p] \in {"I", "i"} /\ t[p + 1] = ":"
    THEN LET s == CaptureStart(t, p + 2, {"\n"})
         IN  IF s = 0 THEN <<>>
             ELSE SubSeq(t, s, RunEnd(t, s, {"\n"}))
    ELSE <<>>

PatternAt(n, t, p) ==
    IF n = 1 THEN Pattern1At(t, p)
    ELSE IF n = 2 THEN Pattern2At(t, p)
    ELSE Pattern3At(t, p)

\* allText.match(patterns[n])[1]: the capture of the leftmost match, or <<>>
\* when the pattern matches nowhere (a capture is never empty).
PatternCapture(n, t) ==
    LET hits == {p \in 1..Len(t) : PatternAt(n, t, p) # <<>>}
    IN  IF hits = {} THEN <<>>
        ELSE PatternAt(n, t, CHOOSE p \in hits : \A p2 \in hits : p <= p2)

\* The loop over patterns: the first pattern that matches decides, and its
\* capture is trimmed.
RECURSIVE FromPatterns(_, _)
FromPatterns(t, n) ==
    IF n > 3 THEN <<>>
    ELSE IF PatternCapture(n, t) # <<>> THEN Trim(PatternCapture(n, t))
    ELSE FromPatterns(t, n + 1)

\* A separator of /原材料[名：:]|Ingredients[:：]/i starts at position p.
SeparatorAt(t, p) ==
    /\ p + 1 <= Len(t)
    /\ \/ t[p] = "L" /\ t[p + 1] \in {"N", ":"}
       \/ t[p] \in {"I", "i"} /\ t[p + 1] = ":"

\* First separator of t at or after position p; Len(t) + 1 when there is none.
RECURSIVE NextSeparator(_, _)
NextSeparator(t, p) ==
    IF p > Len(t) THEN Len(t) + 1
    ELSE IF SeparatorAt(t, p) THEN p
    ELSE NextSeparator(t, p + 1)

\* text.split(/原材料[名：:]|Ingredients[:：]/i)[1], <<>> when it is undefined
\* or empty (both fail the test if (parts[1])).
SplitPart1(t) ==
    LET a == NextSeparator(t, 1)
    IN  IF a > Len(t) THEN <<>>
        ELSE SubSeq(t, a + 2, NextSeparator(t, a + 2) - 1)

\* text.includes("原材料") || text.includes("Ingredients")
HasLabel(t) == \E p \in 1..Len(t) : t[p] \in {"L", "I"}

\* The lines of t from position p on (t split at its line breaks).
RECURSIVE LinesFrom(_, _)
LinesFrom(t, p) ==
    LET q == RunEnd(t, p, {"\n"})
    IN  IF q >= Len(t) THEN <<SubSeq(t, p, q)>>
        ELSE <<SubSeq(t, p, q)>> \o LinesFrom(t, q + 2)

\* doc.querySelectorAll('table tr, .spec-table tr, [class*="ingredient"]'):
\* the textContent of each matched element, in document order.
Rows(d) ==
    IF d.layout = "none" THEN <<>>
    ELSE IF d.layout = "all" THEN <<d.text>>
    ELSE LinesFrom(d.text, 1)

\* The loop over rows: the first row that holds a label and a non-empty
\* parts[1] decides, and that part is trimmed.
RECURSIVE FromRows(_, _)
FromRows(rows, n) ==
    IF n > Len(rows) THEN <<>>
    ELSE IF HasLabel(rows[n]) /\ SplitPart1(rows[n]) # <<>>
    THEN Trim(SplitPart1(rows[n]))
    ELSE FromRows(rows, n + 1)

\* The ingredients variable when the final check is reached.
ExtractIngredients(d) ==
    IF FromPatterns(d.text, 1) # <<>> THEN FromPatterns(d.text, 1)
    ELSE FromRows(Rows(d), 1)

\* Mutation of ResolveName: the first matched element wins whatever its
\* text.
RECURSIVE ResolveName_FirstFound(_, _)
ResolveName_FirstFound(names, n) ==
    IF n > Len(nameSelectors) THEN UnknownProduct
    ELSE IF names[n].found THEN Trim(names[n].text)
    ELSE ResolveName_FirstFound(names, n + 1)

\* The loop over nameSelectors: the first matched element with non-empty
\* trimmed text, or the placeholder.
RECURSIVE ResolveName(_, _)
ResolveName(names, n) ==
    IF n > Len(nameSelectors) THEN UnknownProduct
    ELSE IF names[n].found /\ Trim(names[n].text) # <<>> THEN Trim(names[n].text)
    ELSE ResolveName(names, n + 1)

\* Mutation of MissingIngredients: the final check is dropped.
MissingIngredients_Never(ingredients) == FALSE

\* if (!ingredients)
MissingIngredients(ingredients) == ingredients = <<>>

\* Texts of up to n pieces.
RECURSIVE TextsUpTo(_)
TextsUpTo(n) ==
    IF n = 0 THEN {<<>>}
    ELSE TextsUpTo(n - 1) \cup {t \o pc : t \in TextsUpTo(n - 1), pc \in Pieces}

\* No call of parseKokubuProduct in the run.
IdleExtractor ==
    /\ ex_pc = "idle"
    /\ doc = [text |-> <<>>, layout |-> "none", names |-> [n \in 1..4 |-> NoElement]]
    /\ ex_result = NoProduct

\* A document has been parsed from the page (DOMParser.parseFromString) and
\* parseKokubuProduct is about to run on it. The page has a title and no
\* other name element.
StartExtractor ==
    /\ ex_pc = "idle"
    /\ \E t \in TextsUpTo(MaxPieces), l \in Layouts :
          doc = [text |-> t, layout |-> l,
                 names |-> [n \in 1..4 |-> IF n = 4 THEN [found |-> TRUE, text |-> <<"x">>]
                                           ELSE NoElement]]
    /\ ex_result = NoProduct

\* What doc.querySelector can answer for the n-th name selector: no
\* element, or an element whose textContent is empty, whitespace, or the
\* name text of that selector surrounded by whitespace.
NameElements(n) ==
    {NoElement} \cup {[found |-> TRUE, text |-> tx] :
                         tx \in {<<>>, <<" ">>, <<" ", nameSelectors[n], "\n">>}}

\* Body texts the name elements are combined with: without ingredients,
\* with ingredients after a label, with a label followed by whitespace only.
NamePageTexts == {<<>>, <<"x">>, <<"L", ":", "x">>, <<"L", ":", " ">>, <<"I", ":", "x", "\n">>}

\* A document has been parsed from the page and parseKokubuProduct is about
\* to run on it; the page has any combination of name elements.
StartProductName ==
    /\ ex_pc = "idle"
    /\ \E t \in NamePageTexts, l \in Layouts :
       \E e1 \in NameElements(1), e2 \in NameElements(2),
          e3 \in NameElements(3), e4 \in NameElements(4) :
          doc = [text |-> t, layout |-> l, names |-> <<e1, e2, e3, e4>>]
    /\ ex_result = NoProduct

MaxRows == 3

\* Texts of table rows: a label that only the second pattern matches,
\* followed by a less-than sign; labels with a blank remainder; labels with
\* a remainder; a row without a label.
RowTexts == {<<"L", " ", ":", " ", "<">>, <<"I", ":", " ">>, <<"L", ":", " ">>,
             <<"I", ":", "x">>, <<"L", "N", "x">>, <<"x">>}

\* Tables of up to n rows.
RECURSIVE TablesUpTo(_)
TablesUpTo(n) ==
    IF n = 0 THEN {<<>>}
    ELSE TablesUpTo(n - 1) \cup {tb \o <<r>> : tb \in TablesUpTo(n - 1), r \in RowTexts}

\* The textContent of a table: the text of its rows, a line break after each.
RECURSIVE TableText(_)
TableText(tb) ==
    IF tb = <<>> THEN <<>> ELSE Head(tb) \o <<"\n">> \o TableText(Tail(tb))

\* A document whose body is one table has been parsed from the page and
\* parseKokubuProduct is about to run on it; every row of the table is
\* matched by 'table tr'.
StartTable ==
    /\ ex_pc = "idle"
    /\ \E tb \in TablesUpTo(MaxRows) :
          doc = [text |-> TableText(tb), layout |-> "lines",
                 names |-> [n \in 1..4 |-> IF n = 4 THEN [found |-> TRUE, text |-> <<"x">>]
                                           ELSE NoElement]]
    /\ ex_result = NoProduct

\* parseKokubuProduct(html, url)
ParseKokubuProduct ==
    /\ ex_pc = "idle"
    /\ IF MissingIngredients(ExtractIngredients(doc))
       THEN /\ ex_pc' = "thrown"
            /\ UNCHANGED ex_result
       ELSE /\ ex_pc' = "returned"
            /\ ex_result' = [productName |-> ResolveName(doc.names, 1),
                               ingredients |-> ExtractIngredients(doc),
                               sourceUrl |-> "url"]
    /\ UNCHANGED doc

\* ------------------------------------------------------------------------
\* Verdict parser
\* ------------------------------------------------------------------------

\* Atoms of a reply: "V" is the literal VERDICT:, "v" is the same word in
\* another case (verdict:), "=" is ===, "e" is ENGLISH, "j" is JAPANESE, "x"
\* is any other character, " " and "\n" are whitespace.
ReplyAtoms == {"V", "v", "=", "e", "j", "x", " ", "\n"}

\* === ENGLISH ===
EnglishMarker == <<"=", " ", "e", " ", "=">>
\* === JAPANESE
JapaneseOpen == <<"=", " ", "j">>

\* The pieces replies are composed of: the markers, and single characters.
ReplyPieces == {<<"V">>, <<"v">>, EnglishMarker, JapaneseOpen \o <<" ", "=">>,
                JapaneseOpen, <<"=">>, <<"x">>, <<" ">>, <<"\n">>}

MaxReplyPieces == 4

NoEnglish == <<"No English reason provided">>
NoJapanese == <<"No Japanese reason provided">>

NoResult == [verdict |-> <<>>, englishReason |-> <<>>, japaneseReason |-> <<>>,
             rawResponse |-> <<>>]

\* The literal m occurs in t at position p.
OccursAt(t, m, p) == p + Len(m) - 1 <= Len(t) /\ SubSeq(t, p, p + Len(m) - 1) = m

\* First position >= p where m occurs in t; 0 when there is none.
RECURSIVE FirstOccurrence(_, _, _)
FirstOccurrence(t, m, p) ==
    IF p + Len(m) - 1 > Len(t) THEN 0
    ELSE IF OccursAt(t, m, p) THEN p
    ELSE FirstOccurrence(t, m, p + 1)

\* Mutation of LineStart: ^ without the m flag matches at the start of the
\* text only.
LineStart_NoMultiline(t, p) == p = 1

\* ^ under the m flag: the start of the text or the position after a line
\* break.
LineStart(t, p) == p = 1 \/ t[p - 1] = "\n"

\* Position of the leftmost match of /^VERDICT:\s*(.*)$/m; 0 when none.
VerdictAt(t) ==
    LET hits == {p \in 1..Len(t) : t[p] = "V" /\ LineStart(t, p)}
    IN  IF hits = {} THEN 0 ELSE CHOOSE p \in hits : \A p2 \in hits : p <= p2

\* verdictMatch[1]: \s* takes all the whitespace after the marker (line
\* breaks included), (.*) the rest of the line reached.
VerdictCapture(t) ==
    LET s == VerdictAt(t) + 1 + WsRun(t, VerdictAt(t) + 1)
    IN  SubSeq(t, s, RunEnd(t, s, {"\n"}))

\* The lookahead (?=\s*=== JAPANESE|$) holds at position q.
EnglishStopsAt(t, q) ==
    \/ OccursAt(t, JapaneseOpen, q + WsRun(t, q))
    \/ q = Len(t) + 1

\* englishMatch[1] of /=== ENGLISH ===\s*([\s\S]*?)(?=\s*=== JAPANESE|$)/
\* for the match at position p: the lazy capture ends at the first position
\* where the lookahead holds.
EnglishCapture(t, p) ==
    LET s == p + Len(EnglishMarker) + WsRun(t, p + Len(EnglishMarker))
        q == CHOOSE q \in s..(Len(t) + 1) :
                /\ EnglishStopsAt(t, q)
                /\ \A q2 \in s..(q - 1) : ~EnglishStopsAt(t, q2)
    IN  SubSeq(t, s, q - 1)

\* The position after the === that closes the Japanese marker opened at p:
\* .*? reaches the first === on the same line. 0 when the line has none.
JapaneseClose(t, p) ==
    LET from == p + Len(JapaneseOpen)
        c == FirstOccurrence(t, <<"=">>, from)
    IN  IF c = 0 \/ RunEnd(t, from, {"\n"}) < c THEN 0 ELSE c + 1

\* Position of the leftmost match of /=== JAPANESE.*?===\s*([\s\S]*?)$/; 0
\* when none.
JapaneseAt(t) ==
    LET hits == {p \in 1..Len(t) : OccursAt(t, JapaneseOpen, p) /\ JapaneseClose(t, p) # 0}
    IN  IF hits = {} THEN 0 ELSE CHOOSE p \in hits : \A p2 \in hits : p <= p2

\* japaneseMatch[1]: everything after the marker and the whitespace that
\* follows it, to the end of the text.
JapaneseCapture(t) ==
    LET e == JapaneseClose(t, JapaneseAt(t))
    IN  SubSeq(t, e + WsRun(t, e), Len(t))

\* Mutation of RawResponse: the reply is stored trimmed.
RawResponse_Trimmed(t) == Trim(t)

\* rawResponse: responseText -- the reply text as received.
RawResponse(t) == t

\* The AnalysisResult parseGeminiResponse builds from a text with a verdict.
BuildResult(t) ==
    [verdict |-> Trim(VerdictCapture(t)),
     englishReason |->
         IF FirstOccurrence(t, EnglishMarker, 1) # 0
         THEN Trim(EnglishCapture(t, FirstOccurrence(t, EnglishMarker, 1)))
         ELSE NoEnglish,
     japaneseReason |->
         IF JapaneseAt(t) # 0 THEN Trim(JapaneseCapture(t)) ELSE NoJapanese,
     rawResponse |-> RawResponse(t)]

\* Replies of up to n pieces.
RECURSIVE RepliesUpTo(_)
RepliesUpTo(n) ==
    IF n = 0 THEN {<<>>}
    ELSE RepliesUpTo(n - 1) \cup {t \o pc : t \in RepliesUpTo(n - 1), pc \in ReplyPieces}

\* No call of parseGeminiResponse in the run.
IdleParser ==
    /\ ps_pc = "idle"
    /\ responseText = <<>>
    /\ parsed = NoResult
    /\ ps_error = ""

\* The service has replied with some text (<<>> when the reply has none) and
\* parseGeminiResponse is about to run on it.
StartParser ==
    /\ ps_pc = "idle"
    /\ responseText \in RepliesUpTo(MaxReplyPieces)
    /\ parsed = NoResult
    /\ ps_error = ""

\* parseGeminiResponse(response)
ParseGeminiResponse ==
    /\ ps_pc = "idle"
    /\ IF responseText = <<>>
       THEN /\ ps_pc' = "thrown"
            /\ ps_error' = "No text content in Gemini API response"
            /\ UNCHANGED parsed
       ELSE IF VerdictAt(responseText) = 0
       THEN /\ ps_pc' = "thrown"
            /\ ps_error' = "AI response was not in the expected format"
            /\ UNCHANGED parsed
       ELSE /\ ps_pc' = "returned"
            /\ parsed' = BuildResult(responseText)
            /\ UNCHANGED ps_error
    /\ UNCHANGED responseText

\* ------------------------------------------------------------------------
\* Verdict parser of the OpenAI provider
\* ------------------------------------------------------------------------

\* The verdict parseOpenAIResponse substitutes when no marker is found.
UnknownVerdict == <<"Unknown">>

\* VERDICT: under the i flag: the marker in any case.
IsVerdictMarker(c) == c \in {"V", "v"}

\* Position of the leftmost match of /VERDICT:\s*(.*?)(?:\n|$)/i; 0 when
\* none. The marker is not anchored to a line start.
OpenAIVerdictAt(t) ==
    LET hits == {p \in 1..Len(t) : IsVerdictMarker(t[p])}
    IN  IF hits = {} THEN 0 ELSE CHOOSE p \in hits : \A p2 \in hits : p <= p2

\* verdictMatch[1]: \s* takes the whitespace after the marker, (.*?) runs to
\* the first line break or to the end of the text.
OpenAIVerdictCapture(t) ==
    LET s == OpenAIVerdictAt(t) + 1 + WsRun(t, OpenAIVerdictAt(t) + 1)
    IN  SubSeq(t, s, RunEnd(t, s, {"\n"}))

\* ===\s*WORD matched at p: the position after the word; 0 when no match.
WordMarkerEnd(t, p, w) ==
    IF p <= Len(t) /\ t[p] = "="
    THEN LET a == p + 1 + WsRun(t, p + 1)
         IN  IF a <= Len(t) /\ t[a] = w THEN a + 1 ELSE 0
    ELSE 0

\* \s*\n from position p: \s* is greedy and gives back down to the last line
\* break of the whitespace run. The position after that break; 0 when the
\* run holds no line break.
AfterLastBreak(t, p) ==
    LET brk == {k \in p..(p + WsRun(t, p) - 1) : t[k] = "\n"}
    IN  IF brk = {} THEN 0 ELSE 1 + CHOOSE k \in brk : \A k2 \in brk : k2 <= k

\* Where the capture of /===\s*ENGLISH\s*===\s*\n(...)/i starts for a match
\* at p; 0 when the pattern does not match at p.
OpenAIEnglishStart(t, p) ==
    LET a == WordMarkerEnd(t, p, "e")
        b == a + WsRun(t, a)
    IN  IF a # 0 /\ b <= Len(t) /\ t[b] = "=" THEN AfterLastBreak(t, b + 1) ELSE 0

\* The lookahead (?====\s*JAPANESE|$) holds at position q.
OpenAIEnglishStopsAt(t, q) ==
    \/ WordMarkerEnd(t, q, "j") # 0
    \/ q = Len(t) + 1

\* englishMatch[1] of the leftmost match; the text <<>> stands for both an
\* empty capture and no match, which parseOpenAIResponse does not tell apart.
OpenAIEnglishCapture(t) ==
    LET hits == {p \in 1..Len(t) : OpenAIEnglishStart(t, p) # 0}
    IN  IF hits = {} THEN <<>>
        ELSE LET s == OpenAIEnglishStart(t, CHOOSE p \in hits : \A p2 \in hits : p <= p2)
                 q == CHOOSE q \in s..(Len(t) + 1) :
                         /\ OpenAIEnglishStopsAt(t, q)
                         /\ \A q2 \in s..(q - 1) : ~OpenAIEnglishStopsAt(t, q2)
             IN  SubSeq(t, s, q - 1)

\* Where the capture of /===\s*JAPANESE.*?===\s*\n(...)$/i starts for a match
\* at p; 0 when the pattern does not match at p. .*? stays on the line and
\* is extended to a later === when the line break does not follow the first.
OpenAIJapaneseStart(t, p) ==
    LET a == WordMarkerEnd(t, p, "j")
        closes == {c \in a..RunEnd(t, a, {"\n"}) :
                      a # 0 /\ t[c] = "=" /\ AfterLastBreak(t, c + 1) # 0}
    IN  IF a = 0 \/ closes = {} THEN 0
        ELSE AfterLastBreak(t, 1 + CHOOSE c \in closes : \A c2 \in closes : c <= c2)

\* japaneseMatch[1] of the leftmost match, to the end of the text.
OpenAIJapaneseCapture(t) ==
    LET hits == {p \in 1..Len(t) : OpenAIJapaneseStart(t, p) # 0}
    IN  IF hits = {} THEN <<>>
        ELSE SubSeq(t, OpenAIJapaneseStart(t, CHOOSE p \in hits : \A p2 \in hits : p <= p2),
                    Len(t))

\* No call of parseOpenAIResponse in the run.
IdleOpenAIParser ==
    /\ oa_pc = "idle"
    /\ content = <<>>
    /\ oa_parsed = NoResult

\* callOpenAIResponsesApi has returned some content ("" when the reply has
\* none) and parseOpenAIResponse is about to run on it.
StartOpenAIParser ==
    /\ oa_pc = "idle"
    /\ content \in RepliesUpTo(MaxReplyPieces)
    /\ oa_parsed = NoResult

\* parseOpenAIResponse(content)
ParseOpenAIResponse ==
    /\ oa_pc = "idle"
    /\ oa_pc' = "returned"
    /\ oa_parsed' =
          [verdict |-> IF OpenAIVerdictAt(content) # 0
                       THEN Trim(OpenAIVerdictCapture(content))
                       ELSE UnknownVerdict,
           englishReason |-> Trim(OpenAIEnglishCapture(content)),
           japaneseReason |-> Trim(OpenAIJapaneseCapture(content)),
           rawResponse |-> content]
    /\ UNCHANGED content

\* ------------------------------------------------------------------------
\* Analysis call: key resolution and prompt construction
\* ------------------------------------------------------------------------

MaxQueryLen == 3

\* Characters of an ingredients string: "fw/" is the full-width slash, "/"
\* the plain slash, "a" any other character, " " whitespace.
QueryAtoms == {"a", "fw/", "/", " "}

\* Ingredients strings of up to n characters.
RECURSIVE QueryTextsUpTo(_)
QueryTextsUpTo(n) ==
    IF n = 0 THEN {<<>>}
    ELSE QueryTextsUpTo(n - 1)
         \cup {t \o <<c>> : t \in QueryTextsUpTo(n - 1), c \in QueryAtoms}

NoArgs == [provider |-> "none", productName |-> <<>>, ingredients |-> <<>>, apiKey |-> ""]
NoEnv == [GEMINI_API_KEY |-> "", OPENAI_API_KEY |-> ""]
NoQuery == [productName |-> <<>>, ingredientTexts |-> <<>>, key |-> ""]

\* No analysis call in the run.
IdleAnalysis ==
    /\ an_pc = "idle"
    /\ an_args = NoArgs
    /\ an_env = NoEnv
    /\ an_request = NoQuery

\* A caller is about to call analyzeWithGemini(productName, ingredients,
\* apiKey?) or analyzeWithOpenAI(productName, ingredients), in a process
\* whose environment may hold either key. An omitted apiKey is "".
StartAnalysis ==
    /\ an_pc = "idle"
    /\ \E pv \in {"gemini", "openai"}, t \in QueryTextsUpTo(MaxQueryLen),
          k \in {"", "callerkey"} :
          /\ pv = "openai" => k = ""
          /\ an_args = [provider |-> pv, productName |-> <<"n">>, ingredients |-> t,
                        apiKey |-> k]
    /\ an_env \in [GEMINI_API_KEY : {"", "envkey"}, OPENAI_API_KEY : {"", "envkey"}]
    /\ an_request = NoQuery

\* userQuery of analyzeWithGemini with the key it is sent with: the product
\* name and the one interpolation of ${ingredients}.
GeminiUserQuery(key) ==
    [productName |-> an_args.productName,
     ingredientTexts |-> <<an_args.ingredients>>,
     key |-> key]

\* inputPrompt of analyzeWithOpenAI with the key it is sent with: the
\* product name and the three interpolations of ${ingredients}.
OpenAIInputPrompt(key) ==
    [productName |-> an_args.productName,
     ingredientTexts |-> <<an_args.ingredients, an_args.ingredients, an_args.ingredients>>,
     key |-> key]

\* const effectiveApiKey = apiKey || process.env.GEMINI_API_KEY
\* A key that falls back to a built-in value when neither the caller nor the
\* environment supplies one.
GeminiEffectiveKey_BuiltIn ==
    IF an_args.apiKey # "" THEN an_args.apiKey
    ELSE IF an_env.GEMINI_API_KEY # "" THEN an_env.GEMINI_API_KEY ELSE "builtin"

GeminiEffectiveKey == IF an_args.apiKey # "" THEN an_args.apiKey ELSE an_env.GEMINI_API_KEY

\* analyzeWithGemini up to its call of callGeminiApi.
AnalyzeWithGemini ==
    /\ an_pc = "idle"
    /\ an_args.provider = "gemini"
    /\ IF GeminiEffectiveKey = ""
       THEN /\ an_pc' = "thrown"
            /\ UNCHANGED an_request
       ELSE /\ an_pc' = "calling"
            /\ an_request' = GeminiUserQuery(GeminiEffectiveKey)
    /\ UNCHANGED <<an_args, an_env>>

\* analyzeWithOpenAI up to its call of callOpenAIResponsesApi.
AnalyzeWithOpenAI ==
    /\ an_pc = "idle"
    /\ an_args.provider = "openai"
    /\ IF an_env.OPENAI_API_KEY = ""
       THEN /\ an_pc' = "thrown"
            /\ UNCHANGED an_request
       ELSE /\ an_pc' = "calling"
            /\ an_request' = OpenAIInputPrompt(an_env.OPENAI_API_KEY)
    /\ UNCHANGED <<an_args, an_env>>

\* ------------------------------------------------------------------------
\* Callers: the page and the analyze API route
\* ------------------------------------------------------------------------

MaxIngredientLen == 1
MaxInFlight == 2
MaxTimers == 2

\* Ingredient texts of up to n characters: blanks and other characters.
RECURSIVE IngredientTextsUpTo(_)
IngredientTextsUpTo(n) ==
    IF n = 0 THEN {<<>>}
    ELSE IngredientTextsUpTo(n - 1)
         \cup {t \o <<c>> : t \in IngredientTextsUpTo(n - 1), c \in {" ", "x"}}

IngredientTexts == IngredientTextsUpTo(MaxIngredientLen)

\* What parseKokubuProduct can return as ingredients: trimmed and not empty.
ExtractedTexts == {t \in IngredientTexts : t # <<>> /\ Trim(t) = t}

NoData == [productName |-> <<>>, ingredients |-> <<>>, sourceUrl |-> "", isNull |-> TRUE]
NoAnalysis == "null"
NoError == [kind |-> "null", diagnostic |-> ""]
NoRequest == [via |-> "none", ingredients |-> <<>>, key |-> ""]

\* const effectiveApiKey = apiKey || process.env.GEMINI_API_KEY
EffectiveApiKey(key) == IF key # "" THEN key ELSE GEMINI_API_KEY

\* hideAllSections()
HideAllSections ==
    /\ showProgress' = FALSE
    /\ showReview' = FALSE
    /\ showResults' = FALSE
    /\ showError' = FALSE

\* displayError(message): setError, setShowError(true), then
\* hideAllSections(), whose setShowError(false) is the last update of the
\* batch.
DisplayError(kind, diagnostic) ==
    /\ error' = [kind |-> kind, diagnostic |-> diagnostic]
    /\ HideAllSections

\* The page as first rendered.
StartPage ==
    /\ productUrl = "url"
    /\ apiKey = ""
    /\ isLoading = FALSE
    /\ progressMessage = ""
    /\ showProgress = FALSE
    /\ productData = NoData
    /\ showReview = FALSE
    /\ analysisResult = NoAnalysis
    /\ showResults = FALSE
    /\ error = NoError
    /\ showError = FALSE
    /\ fetching = 0
    /\ analyzing = 0
    /\ timers = 0

StartRoute ==
    /\ route_pc = "idle"
    /\ route_status = 0

\* A run of the callers starts: either the page is open or the route is
\* about to receive a POST; the environment may or may not hold a key.
StartCallers ==
    /\ caller \in {"page", "route"}
    /\ GEMINI_API_KEY \in {"", "envkey"}
    /\ StartPage
    /\ StartRoute
    /\ lastRequest = NoRequest

IdleCallers ==
    /\ caller = "page"
    /\ GEMINI_API_KEY = ""
    /\ StartPage
    /\ StartRoute
    /\ lastRequest = NoRequest

\* onApiKeyChange={setApiKey}
SetApiKey(k) ==
    /\ caller = "page"
    /\ apiKey # k
    /\ apiKey' = k
    /\ UNCHANGED <<productUrl, isLoading, progressMessage, showProgress, productData,
                   showReview, analysisResult, showResults, error, showError,
                   fetching, analyzing, timers>>
    /\ UNCHANGED <<caller, GEMINI_API_KEY, routeVars, lastRequest>>

\* onProductUrlChange={setProductUrl}; the field is disabled while loading.
SetProductUrl(u) ==
    /\ caller = "page"
    /\ ~isLoading
    /\ productUrl # u
    /\ productUrl' = u
    /\ UNCHANGED <<apiKey, isLoading, progressMessage, showProgress, productData,
                   showReview, analysisResult, showResults, error, showError,
                   fetching, analyzing, timers>>
    /\ UNCHANGED <<caller, GEMINI_API_KEY, routeVars, lastRequest>>

\* handleAnalyze up to its await: the Analyze button is enabled while not
\* loading.
HandleAnalyze ==
    /\ caller = "page"
    /\ ~isLoading
    /\ IF productUrl = "" \/ apiKey = ""
       THEN /\ DisplayError("validation", "Please enter both a product URL and your API key.")
            /\ UNCHANGED <<isLoading, progressMessage, productData, analysisResult, fetching>>
       ELSE /\ fetching < MaxInFlight
            /\ isLoading' = TRUE
            /\ showReview' = FALSE
            /\ showResults' = FALSE
            /\ showError' = FALSE
            /\ productData' = NoData
            /\ analysisResult' = NoAnalysis
            /\ progressMessage' = "Fetching product page..."
            /\ showProgress' = TRUE
            /\ fetching' = fetching + 1
            /\ UNCHANGED error
    /\ UNCHANGED <<productUrl, apiKey, analyzing, timers>>
    /\ UNCHANGED <<caller, GEMINI_API_KEY, routeVars, lastRequest>>

\* handleAnalyze after its await when fetchProductPage and parseKokubuProduct
\* succeed: the data is stored, the reveal timer is set, finally runs.
AnalyzeSucceeds(ingredients) ==
    /\ caller = "page"
    /\ fetching > 0
    /\ timers < MaxTimers
    /\ fetching' = fetching - 1
    /\ productData' = [productName |-> <<"n">>, ingredients |-> ingredients,
                        sourceUrl |-> "url", isNull |-> FALSE]
    /\ progressMessage' = "Extraction complete! Please review the information below."
    /\ timers' = timers + 1
    /\ isLoading' = FALSE
    /\ UNCHANGED <<productUrl, apiKey, showProgress, showReview, analysisResult,
                   showResults, error, showError, analyzing>>
    /\ UNCHANGED <<caller, GEMINI_API_KEY, routeVars, lastRequest>>

\* handleAnalyze after its await when fetchProductPage throws (stage "fetch")
\* or parseKokubuProduct throws (stage "extract"): catch, then finally.
AnalyzeFails(stage) ==
    /\ caller = "page"
    /\ fetching > 0
    /\ fetching' = fetching - 1
    /\ progressMessage' = IF stage = "fetch" THEN progressMessage
                          ELSE "Extracting product information and ingredients..."
    /\ DisplayError("Failed to extract product information", stage)
    /\ isLoading' = FALSE
    /\ UNCHANGED <<productUrl, apiKey, productData, analysisResult, analyzing, timers>>
    /\ UNCHANGED <<caller, GEMINI_API_KEY, routeVars, lastRequest>>

\* The callback of setTimeout(..., 1000) in handleAnalyze.
RevealTimerFires ==
    /\ caller = "page"
    /\ timers > 0
    /\ timers' = timers - 1
    /\ showProgress' = FALSE
    /\ showReview' = TRUE
    /\ UNCHANGED <<productUrl, apiKey, isLoading, progressMessage, productData,
                   analysisResult, showResults, error, showError, fetching, analyzing>>
    /\ UNCHANGED <<caller, GEMINI_API_KEY, routeVars, lastRequest>>

\* An edit that builds the record anew from the edited text alone.
HandleIngredientsChange_FreshRecord(ingredients) ==
    /\ caller = "page"
    /\ showReview
    /\ productData' = IF productData.isNull THEN productData
                      ELSE [NoData EXCEPT !.ingredients = ingredients, !.isNull = FALSE]
    /\ productData' # productData
    /\ UNCHANGED <<productUrl, apiKey, isLoading, progressMessage, showProgress,
                   showReview, analysisResult, showResults, error, showError,
                   fetching, analyzing, timers>>
    /\ UNCHANGED <<caller, GEMINI_API_KEY, routeVars, lastRequest>>

\* handleIngredientsChange(ingredients): the text field is rendered while the
\* review section is shown.
HandleIngredientsChange(ingredients) ==
    /\ caller = "page"
    /\ showReview
    /\ productData' = IF productData.isNull THEN productData
                      ELSE [productData EXCEPT !.ingredients = ingredients]
    /\ productData' # productData
    /\ UNCHANGED <<productUrl, apiKey, isLoading, progressMessage, showProgress,
                   showReview, analysisResult, showResults, error, showError,
                   fetching, analyzing, timers>>
    /\ UNCHANGED <<caller, GEMINI_API_KEY, routeVars, lastRequest>>

\* if (!productData.ingredients.trim())
BlankIngredients(text) == Trim(text) = <<>>

\* handleConfirmAnalysis up to its await: the Confirm button is rendered
\* while the review section is shown. analyzeWithGemini is entered with the
\* page's apiKey; with an effective key its request goes out.
HandleConfirmAnalysis ==
    /\ caller = "page"
    /\ showReview
    /\ IF apiKey = ""
       THEN /\ DisplayError("validation", "API key is required.")
            /\ UNCHANGED <<isLoading, progressMessage, analyzing, lastRequest>>
       ELSE IF productData.isNull
       THEN /\ DisplayError("validation", "No product data available. Please analyze a product first.")
            /\ UNCHANGED <<isLoading, progressMessage, analyzing, lastRequest>>
       ELSE IF BlankIngredients(productData.ingredients)
       THEN /\ DisplayError("validation", "Ingredients list cannot be empty.")
            /\ UNCHANGED <<isLoading, progressMessage, analyzing, lastRequest>>
       ELSE /\ analyzing < MaxInFlight
            /\ isLoading' = TRUE
            /\ showReview' = FALSE
            /\ showResults' = FALSE
            /\ showError' = FALSE
            /\ progressMessage' = "Analyzing ingredients against EU regulations..."
            /\ showProgress' = TRUE
            /\ analyzing' = analyzing + 1
            /\ lastRequest' = [via |-> "page", ingredients |-> productData.ingredients,
                               key |-> EffectiveApiKey(apiKey)]
            /\ UNCHANGED error
    /\ UNCHANGED <<productUrl, apiKey, productData, analysisResult, fetching, timers>>
    /\ UNCHANGED <<caller, GEMINI_API_KEY, routeVars>>

\* handleConfirmAnalysis after its await when analyzeWithGemini returns.
ConfirmSucceeds ==
    /\ caller = "page"
    /\ analyzing > 0
    /\ analyzing' = analyzing - 1
    /\ analysisResult' = "result"
    /\ showProgress' = FALSE
    /\ showResults' = TRUE
    /\ isLoading' = FALSE
    /\ UNCHANGED <<productUrl, apiKey, progressMessage, productData, showReview,
                   error, showError, fetching, timers>>
    /\ UNCHANGED <<caller, GEMINI_API_KEY, routeVars, lastRequest>>

\* handleConfirmAnalysis after its await when analyzeWithGemini throws (the
\* service call failed or the reply did not parse): catch, then finally.
ConfirmFails(stage) ==
    /\ caller = "page"
    /\ analyzing > 0
    /\ analyzing' = analyzing - 1
    /\ DisplayError("Analysis error", stage)
    /\ isLoading' = FALSE
    /\ UNCHANGED <<productUrl, apiKey, progressMessage, productData, analysisResult,
                   fetching, timers>>
    /\ UNCHANGED <<caller, GEMINI_API_KEY, routeVars, lastRequest>>

\* if (!productName || !ingredients): a missing field and an empty string
\* are both falsy.
RouteRejects(body) == body.productName = <<>> \/ body.ingredients = <<>>

\* POST(request) up to its await: validation, then analyzeWithGemini with no
\* apiKey argument, which throws without an effective key and otherwise
\* sends its request.
RoutePost(body) ==
    /\ caller = "route"
    /\ route_pc = "idle"
    /\ IF RouteRejects(body)
       THEN /\ route_pc' = "responded"
            /\ route_status' = 400
            /\ UNCHANGED lastRequest
       ELSE IF EffectiveApiKey("") = ""
       THEN /\ route_pc' = "responded"
            /\ route_status' = 500
            /\ UNCHANGED lastRequest
       ELSE /\ route_pc' = "awaiting"
            /\ lastRequest' = [via |-> "route", ingredients |-> body.ingredients,
                               key |-> EffectiveApiKey("")]
            /\ UNCHANGED route_status
    /\ UNCHANGED <<caller, GEMINI_API_KEY, pageVars>>

\* POST(request) after its await: analyzeWithGemini returned (200) or threw
\* (500).
RouteSettles(status) ==
    /\ caller = "route"
    /\ route_pc = "awaiting"
    /\ route_pc' = "responded"
    /\ route_status' = status
    /\ UNCHANGED <<caller, GEMINI_API_KEY, pageVars, lastRequest>>

RouteBodies == [productName : {<<>>, <<"n">>}, ingredients : IngredientTexts]

\* ------------------------------------------------------------------------
\* Results section: the verdict banner of ComplianceResults
\* ------------------------------------------------------------------------

MaxVerdictLen == 5

\* The words verdict texts are composed of, and the blank between them.
VerdictAtoms == {"Export", "OK", "NOT", "CONDITIONAL", "Unknown", " "}

RECURSIVE VerdictTextsUpTo(_)
VerdictTextsUpTo(n) ==
    IF n = 0 THEN {<<>>}
    ELSE VerdictTextsUpTo(n - 1)
         \cup {t \o <<c>> : t \in VerdictTextsUpTo(n - 1), c \in VerdictAtoms}

\* result.verdict as the parsers return it: trimmed.
VerdictTexts == {t \in VerdictTextsUpTo(MaxVerdictLen) : Trim(t) = t}

NoVerdictResult == [isNull |-> TRUE, verdict |-> <<>>]

\* String.prototype.includes
Includes(t, sub) ==
    \E p \in 1..(Len(t) - Len(sub) + 1) : SubSeq(t, p, p + Len(sub) - 1) = sub

\* const isExportNotOk = result.verdict.includes("NOT OK")
IsExportNotOk(verdict) == Includes(verdict, <<"NOT", " ", "OK">>)

\* severity={isExportNotOk ? "error" : "success"}
BannerSeverity(verdict) == IF IsExportNotOk(verdict) THEN "error" ELSE "success"

IdleBanner ==
    /\ bn_pc = "idle"
    /\ bn_props = [show |-> FALSE, result |-> NoVerdictResult]
    /\ bn_severity = "none"

\* The page is about to render <ComplianceResults result show />.
StartBanner ==
    /\ bn_pc = "idle"
    /\ bn_props \in [show : BOOLEAN,
                      result : {NoVerdictResult}
                               \cup {[isNull |-> FALSE, verdict |-> v] : v \in VerdictTexts}]
    /\ bn_severity = "none"

\* ComplianceResults({ result, show })
ComplianceResults ==
    /\ bn_pc = "idle"
    /\ bn_pc' = "rendered"
    /\ bn_severity' = IF ~bn_props.show \/ bn_props.result.isNull THEN "none"
                      ELSE BannerSeverity(bn_props.result.verdict)
    /\ UNCHANGED bn_props

\* ------------------------------------------------------------------------
\* Specifications
\* ------------------------------------------------------------------------

vars == <<rqVars, ftVars, exVars, psVars, oaVars, anVars, clVars, bnVars>>

InitRequester == StartRequester /\ IdleFetcher /\ IdleExtractor /\ IdleParser /\ IdleCallers /\ IdleOpenAIParser /\ IdleAnalysis /\ IdleBanner

NextRequester ==
    \/ CallGeminiApi /\ UNCHANGED <<ftVars, exVars, psVars, oaVars, anVars, clVars, bnVars>>
    \/ (\E o \in GeminiOutcomes : GeminiFetchSettles(o)) /\ UNCHANGED <<ftVars, exVars, psVars, oaVars, anVars, clVars, bnVars>>
    \/ GeminiTimerFires /\ UNCHANGED <<ftVars, exVars, psVars, oaVars, anVars, clVars, bnVars>>
    \/ CallOpenAIResponsesApi /\ UNCHANGED <<ftVars, exVars, psVars, oaVars, anVars, clVars, bnVars>>
    \/ (\E o \in OpenAIOutcomes : OpenAISettles(o)) /\ UNCHANGED <<ftVars, exVars, psVars, oaVars, anVars, clVars, bnVars>>
    \/ OpenAITimerFires /\ UNCHANGED <<ftVars, exVars, psVars, oaVars, anVars, clVars, bnVars>>

SpecRequester == InitRequester /\ [][NextRequester]_vars

InitFetcher == StartFetcher /\ IdleRequester /\ IdleExtractor /\ IdleParser /\ IdleCallers /\ IdleOpenAIParser /\ IdleAnalysis /\ IdleBanner

NextFetcher ==
    \/ FetchProductPage /\ UNCHANGED <<rqVars, exVars, psVars, oaVars, anVars, clVars, bnVars>>
    \/ (\E o \in FetchOutcomes : DirectSettles(o)) /\ UNCHANGED <<rqVars, exVars, psVars, oaVars, anVars, clVars, bnVars>>
    \/ (\E o \in FetchOutcomes : ProxySettles(o)) /\ UNCHANGED <<rqVars, exVars, psVars, oaVars, anVars, clVars, bnVars>>

SpecFetcher == InitFetcher /\ [][NextFetcher]_vars

InitExtractor == StartExtractor /\ IdleRequester /\ IdleFetcher /\ IdleParser /\ IdleCallers /\ IdleOpenAIParser /\ IdleAnalysis /\ IdleBanner

NextExtractor == ParseKokubuProduct /\ UNCHANGED <<rqVars, ftVars, psVars, oaVars, anVars, clVars, bnVars>>

SpecExtractor == InitExtractor /\ [][NextExtractor]_vars

InitProductName ==
    StartProductName /\ IdleRequester /\ IdleFetcher /\ IdleParser /\ IdleCallers /\ IdleOpenAIParser /\ IdleAnalysis /\ IdleBanner

SpecProductName == InitProductName /\ [][NextExtractor]_vars

InitTable ==
    StartTable /\ IdleRequester /\ IdleFetcher /\ IdleParser /\ IdleCallers /\ IdleOpenAIParser /\ IdleAnalysis /\ IdleBanner

SpecTable == InitTable /\ [][NextExtractor]_vars

InitParser == StartParser /\ IdleRequester /\ IdleFetcher /\ IdleExtractor /\ IdleCallers /\ IdleOpenAIParser /\ IdleAnalysis /\ IdleBanner

NextParser == ParseGeminiResponse /\ UNCHANGED <<rqVars, ftVars, exVars, oaVars, anVars, clVars, bnVars>>

SpecParser == InitParser /\ [][NextParser]_vars

InitOpenAIParser ==
    StartOpenAIParser /\ IdleRequester /\ IdleFetcher /\ IdleExtractor /\ IdleParser /\ IdleCallers /\ IdleAnalysis /\ IdleBanner

NextOpenAIParser ==
    ParseOpenAIResponse /\ UNCHANGED <<rqVars, ftVars, exVars, psVars, anVars, clVars, bnVars>>

SpecOpenAIParser == InitOpenAIParser /\ [][NextOpenAIParser]_vars

InitCallers == StartCallers /\ IdleRequester /\ IdleFetcher /\ IdleExtractor /\ IdleParser /\ IdleOpenAIParser /\ IdleAnalysis /\ IdleBanner

NextCallers ==
    \/ (\E k \in {"", "key"} : SetApiKey(k)) /\ UNCHANGED <<rqVars, ftVars, exVars, psVars, oaVars, anVars, bnVars>>
    \/ (\E u \in {"", "url"} : SetProductUrl(u)) /\ UNCHANGED <<rqVars, ftVars, exVars, psVars, oaVars, anVars, bnVars>>
    \/ HandleAnalyze /\ UNCHANGED <<rqVars, ftVars, exVars, psVars, oaVars, anVars, bnVars>>
    \/ (\E t \in ExtractedTexts : AnalyzeSucceeds(t)) /\ UNCHANGED <<rqVars, ftVars, exVars, psVars, oaVars, anVars, bnVars>>
    \/ (\E st \in {"fetch", "extract"} : AnalyzeFails(st)) /\ UNCHANGED <<rqVars, ftVars, exVars, psVars, oaVars, anVars, bnVars>>
    \/ RevealTimerFires /\ UNCHANGED <<rqVars, ftVars, exVars, psVars, oaVars, anVars, bnVars>>
    \/ (\E t \in IngredientTexts : HandleIngredientsChange(t)) /\ UNCHANGED <<rqVars, ftVars, exVars, psVars, oaVars, anVars, bnVars>>
    \/ HandleConfirmAnalysis /\ UNCHANGED <<rqVars, ftVars, exVars, psVars, oaVars, anVars, bnVars>>
    \/ ConfirmSucceeds /\ UNCHANGED <<rqVars, ftVars, exVars, psVars, oaVars, anVars, bnVars>>
    \/ (\E st \in {"service", "format"} : ConfirmFails(st)) /\ UNCHANGED <<rqVars, ftVars, exVars, psVars, oaVars, anVars, bnVars>>
    \/ (\E body \in RouteBodies : RoutePost(body)) /\ UNCHANGED <<rqVars, ftVars, exVars, psVars, oaVars, anVars, bnVars>>
    \/ (\E st \in {200, 500} : RouteSettles(st)) /\ UNCHANGED <<rqVars, ftVars, exVars, psVars, oaVars, anVars, bnVars>>

SpecCallers == InitCallers /\ [][NextCallers]_vars

InitAnalysis ==
    StartAnalysis /\ IdleRequester /\ IdleFetcher /\ IdleExtractor /\ IdleParser /\ IdleOpenAIParser /\ IdleCallers /\ IdleBanner

NextAnalysis ==
    \/ AnalyzeWithGemini /\ UNCHANGED <<rqVars, ftVars, exVars, psVars, oaVars, clVars, bnVars>>
    \/ AnalyzeWithOpenAI /\ UNCHANGED <<rqVars, ftVars, exVars, psVars, oaVars, clVars, bnVars>>

SpecAnalysis == InitAnalysis /\ [][NextAnalysis]_vars

InitBanner ==
    StartBanner /\ IdleRequester /\ IdleFetcher /\ IdleExtractor /\ IdleParser /\ IdleOpenAIParser /\ IdleAnalysis /\ IdleCallers

NextBanner == ComplianceResults /\ UNCHANGED <<rqVars, ftVars, exVars, psVars, oaVars, anVars, clVars>>

SpecBanner == InitBanner /\ [][NextBanner]_vars

\* ------------------------------------------------------------------------
\* Properties of the verdict requester (checked under SpecRequester)
\* ------------------------------------------------------------------------

\* An error status that the retry policy does not cover.
NonRetryableStatus(o) == o.type = "response" /\ ~ResponseOk(o) /\ ~RetryableStatus(o)

\* A failure the retry policy covers: 429, 5xx, or an exception of the
\* attempt (the fetch rejecting, or the body of a success response failing to
\* read).
RetryableFailure(o) ==
    \/ o.type = "exception"
    \/ RetryableStatus(o)
    \/ (ResponseOk(o) /\ o.body = "bad")

\* A success status with a reply.
Success(o) == ResponseOk(o) /\ o.body = "json"

\* C1: when attempt k of callGeminiApi receives an error status other than
\* 429 or 5xx, the call has failed at once: it is in its thrown state, no
\* backoff delay followed attempt k and no attempt after k was issued.
C1_NonRetryableFailsImmediately ==
    callee = "gemini" =>
        \A k \in 1..Len(outcomes) :
            NonRetryableStatus(outcomes[k]) =>
                /\ rq_pc = "thrown"
                /\ attempts = k
                /\ \A d \in 1..Len(sleptAfter) : sleptAfter[d] # k

\* C2: in every run of either requester no backoff delay is taken after the
\* final (3rd) attempt: every delay taken follows attempt 1 or attempt 2.
C2_NoBackoffAfterFinalAttempt ==
    \A d \in 1..Len(sleptAfter) : sleptAfter[d] < 3

\* C3: one call of a verdict requester issues at most 3 network attempts,
\* whatever the attempts receive.
C3_AtMostThreeAttempts ==
    /\ attempts <= 3
    /\ Len(outcomes) <= attempts

\* C3 witness: a call that used all three attempts and failed.
C3_Witness ==
    /\ attempts = 3
    /\ Len(outcomes) = 3
    /\ rq_pc = "thrown"

\* C4: in callGeminiApi, when the first k-1 attempts are retryable failures
\* and attempt k succeeds, the call has returned attempt k's reply after
\* exactly k-1 delays of 1s then 2s and issued no attempt after k; when all
\* three attempts are retryable failures the call returns no reply and ends
\* thrown (the only step left to it, if any, is the one that throws).
C4_RetryThenSuccess ==
    callee = "gemini" =>
        /\ \A k \in 1..Len(outcomes) :
              (/\ \A j \in 1..(k - 1) : RetryableFailure(outcomes[j])
               /\ Success(outcomes[k]))
              => /\ rq_pc = "returned"
                 /\ reply = [attempt |-> k]
                 /\ delays = SubSeq(<<1000, 2000>>, 1, k - 1)
                 /\ attempts = k
                 /\ Len(outcomes) = k
        /\ (/\ Len(outcomes) = 3
            /\ \A j \in 1..3 : RetryableFailure(outcomes[j]))
           => /\ reply = NoReply
              /\ attempts = 3
              /\ rq_pc \in {"thrown", "sleep"}
              /\ rq_pc = "sleep" => i = 2

\* C4 witness: [retryable, retryable, success] returned the third reply after
\* 1s and 2s.
C4_Witness ==
    /\ callee = "gemini"
    /\ rq_pc = "returned"
    /\ reply = [attempt |-> 3]
    /\ delays = <<1000, 2000>>
    /\ outcomes[1].status = 429
    /\ outcomes[2].status = 503

\* ------------------------------------------------------------------------
\* Properties of the fetcher (checked under SpecFetcher)
\* ------------------------------------------------------------------------

\* A strategy succeeds when it answers with a success status and a non-empty
\* body; anything else is a failed strategy.
StrategySucceeded(o) == ResponseOk(o) /\ o.body = "<html>"

\* C5: whenever fetchProductPage returns, the returned body is non-empty.
C5_ReturnedBodyNonEmpty ==
    ft_pc = "returned" => html # ""

\* C6: the strategies are attempted in the fixed order direct, allorigins,
\* corsproxy.io, codetabs, each at most once; a strategy is attempted only
\* after every earlier one failed, none after one succeeded, and the call
\* throws only after all four were attempted and failed.
C6_FixedOrderFallback ==
    /\ Len(tried) <= 4
    /\ tried = SubSeq(<<"direct", "allorigins", "corsproxy.io", "codetabs">>, 1, Len(tried))
    /\ \A k \in 1..Len(results) :
          /\ k < Len(tried) => ~StrategySucceeded(results[k])
          /\ StrategySucceeded(results[k]) => Len(tried) = k /\ ft_pc = "returned"
    /\ ft_pc = "thrown" =>
          /\ Len(tried) = 4
          /\ Len(results) = 4
          /\ \A k \in 1..4 : ~StrategySucceeded(results[k])

\* C6 witness: all four strategies were attempted and the call threw.
C6_Witness ==
    /\ ft_pc = "thrown"
    /\ tried = <<"direct", "allorigins", "corsproxy.io", "codetabs">>

\* C7: when every strategy failed, the thrown error carries one message for
\* each of the four failed strategies (the direct request is strategy 0, the
\* relays are 1..3), each naming its own strategy.
C7_ErrorNamesEveryStrategy ==
    ft_pc = "thrown" =>
        /\ Len(ft_error) = Len(tried)
        /\ \A k \in 1..Len(tried) :
              \E m \in 1..Len(ft_error) : ft_error[m].proxy = k - 1

\* ------------------------------------------------------------------------
\* Properties of the extractor (checked under SpecExtractor)
\* ------------------------------------------------------------------------

\* C8: parseKokubuProduct either throws or returns a ProductData whose
\* ingredients hold at least one non-whitespace character.
C8_IngredientsNeverBlank ==
    /\ ex_pc \in {"idle", "returned", "thrown"}
    /\ ex_pc = "returned" =>
          \E p \in 1..Len(ex_result.ingredients) : ~IsWs(ex_result.ingredients[p])
    /\ ex_pc = "thrown" => ex_result = NoProduct

\* C8 witness: a pattern captured only whitespace, the row fallback supplied
\* the ingredients, and they were returned.
C8_Witness ==
    /\ ex_pc = "returned"
    /\ PatternCapture(1, doc.text) # <<>>
    /\ Trim(PatternCapture(1, doc.text)) = <<>>
    /\ ex_result.ingredients = <<"x">>

\* ------------------------------------------------------------------------
\* Properties of the callers (checked under SpecCallers)
\* ------------------------------------------------------------------------

\* C9: no analysis request reaches the reasoning service with ingredient
\* text that is empty or whitespace-only, whether it was sent by the page
\* (extracted or edited text) or by the analyze API route (POST body).
C9_NoBlankIngredientsSent ==
    lastRequest # NoRequest =>
        \E p \in 1..Len(lastRequest.ingredients) : ~IsWs(lastRequest.ingredients[p])

\* ------------------------------------------------------------------------
\* Properties of the verdict parser (checked under SpecParser)
\* ------------------------------------------------------------------------

\* Some line of t begins with the marker VERDICT: in exactly that case.
HasVerdictLine(t) ==
    \E p \in 1..Len(t) : t[p] = "V" /\ (p = 1 \/ t[p - 1] = "\n")

\* C10: parseGeminiResponse throws exactly when no line of the reply begins
\* with VERDICT:; otherwise it returns a result, in which a language whose
\* marker does not occur in the reply has its placeholder.
C10_FailsIffNoVerdictLine ==
    /\ ps_pc = "thrown" => ~HasVerdictLine(responseText) /\ parsed = NoResult
    /\ ps_pc = "returned" =>
          /\ HasVerdictLine(responseText)
          /\ parsed.rawResponse = responseText
          /\ FirstOccurrence(responseText, EnglishMarker, 1) = 0
                => parsed.englishReason = NoEnglish
          /\ FirstOccurrence(responseText, JapaneseOpen, 1) = 0
                => parsed.japaneseReason = NoJapanese

\* C10 witness: a reply whose verdict line is not the first line and which
\* has an English block but no Japanese marker was parsed with the Japanese
\* placeholder.
C10_Witness ==
    /\ ps_pc = "returned"
    /\ responseText[1] # "V"
    /\ FirstOccurrence(responseText, EnglishMarker, 1) # 0
    /\ parsed.englishReason = <<"x">>
    /\ parsed.japaneseReason = NoJapanese

\* The remainder of the first line of t that begins with VERDICT:, from the
\* end of the marker to the end of that same line.
VerdictLineRemainder(t) ==
    SubSeq(t, VerdictAt(t) + 1, RunEnd(t, VerdictAt(t) + 1, {"\n"}))

\* C11: in every successful parse by parseGeminiResponse the verdict is the
\* trimmed remainder of the first line that begins with VERDICT:, text of
\* that same line only, also when that remainder is empty or whitespace.
C11_VerdictFromSameLine ==
    ps_pc = "returned" => parsed.verdict = Trim(VerdictLineRemainder(responseText))

\* The reply holds a VERDICT: marker, in any case and at any position.
HasVerdictMarker(t) == \E p \in 1..Len(t) : IsVerdictMarker(t[p])

\* C12: a verdict parser never returns a result whose verdict was not read
\* from a VERDICT line of the reply: a reply without one makes the parse
\* fail and no default verdict is substituted (checked for
\* parseOpenAIResponse under SpecOpenAIParser).
C12_VerdictNeverDefaulted ==
    oa_pc = "returned" =>
        /\ HasVerdictMarker(content)
        /\ oa_parsed.verdict = Trim(OpenAIVerdictCapture(content))

\* The text of the English block of t as the blocks are delimited: from the
\* end of the first English marker up to the marker that starts the Japanese
\* block when that marker follows, and up to the end of the text otherwise.
EnglishBlock(t) ==
    LET from == FirstOccurrence(t, EnglishMarker, 1) + Len(EnglishMarker)
    IN  IF JapaneseAt(t) >= from
        THEN SubSeq(t, from, JapaneseAt(t) - 1)
        ELSE SubSeq(t, from, Len(t))

\* The text of the Japanese block of t: from the end of the marker that
\* starts it to the end of the text.
JapaneseBlock(t) == SubSeq(t, JapaneseClose(t, JapaneseAt(t)), Len(t))

\* C13: in every successful parse by parseGeminiResponse, englishReason is
\* the trimmed text between the English marker and the Japanese marker (the
\* end of the text when there is none) and japaneseReason is the trimmed text
\* from the Japanese marker to the end; the marker that ends the English
\* block is the marker that starts the Japanese block.
C13_BlocksDelimitedByMarkers ==
    ps_pc = "returned" =>
        /\ FirstOccurrence(responseText, EnglishMarker, 1) # 0
              => parsed.englishReason = Trim(EnglishBlock(responseText))
        /\ JapaneseAt(responseText) # 0
              => parsed.japaneseReason = Trim(JapaneseBlock(responseText))

NamedSelectors(d) ==
    {n \in 1..Len(nameSelectors) : d.names[n].found /\ Trim(d.names[n].text) # <<>>}

\* C15: product-name resolution never makes parseKokubuProduct fail: the
\* call fails exactly when the ingredients are missing, whatever the name
\* elements are, and a returned productName is the trimmed text of the first
\* selector (h1, .product-name, [class*=product][class*=name], title) whose
\* element has non-empty trimmed text, or 'Unknown Product' when none has.
C15_ProductNameResolution ==
    /\ ex_pc = "thrown" <=> (ex_pc # "idle" /\ ExtractIngredients(doc) = <<>>)
    /\ ex_pc = "returned" =>
          IF NamedSelectors(doc) = {}
          THEN ex_result.productName = <<"Unknown Product">>
          ELSE \E n \in NamedSelectors(doc) :
                  /\ \A n2 \in NamedSelectors(doc) : n <= n2
                  /\ ex_result.productName = <<nameSelectors[n]>>

\* C15 witness: the h1 element exists with whitespace-only text, the second
\* selector matches nothing, and the name was taken from the third selector
\* although the title has text too.
C15_Witness ==
    /\ ex_pc = "returned"
    /\ doc.names[1] = [found |-> TRUE, text |-> <<" ">>]
    /\ ~doc.names[2].found
    /\ Trim(doc.names[4].text) # <<>>
    /\ ex_result.productName = <<nameSelectors[3]>>

\* ------------------------------------------------------------------------
\* Properties of the analysis call (checked under SpecAnalysis)
\* ------------------------------------------------------------------------

\* The delimiter of an ingredients string: the position of the first
\* full-width slash, failing that of the first plain slash; 0 when neither.
DelimiterAt(t) ==
    LET fw == {p \in 1..Len(t) : t[p] = "fw/"}
        pl == {p \in 1..Len(t) : t[p] = "/"}
        first(S) == CHOOSE p \in S : \A p2 \in S : p <= p2
    IN  IF fw # {} THEN first(fw) ELSE IF pl # {} THEN first(pl) ELSE 0

\* The raw-materials segment: the text before the delimiter, trimmed; the
\* trimmed input when there is no delimiter.
RawMaterialsSegment(t) ==
    IF DelimiterAt(t) = 0 THEN Trim(t) ELSE Trim(SubSeq(t, 1, DelimiterAt(t) - 1))

\* The additives segment: the text after the delimiter, trimmed; empty when
\* there is no delimiter.
AdditivesSegment(t) ==
    IF DelimiterAt(t) = 0 THEN <<>> ELSE Trim(SubSeq(t, DelimiterAt(t) + 1, Len(t)))

\* C16: the program splits an ingredients string by the delimiter rule and
\* its consumers work on the two segments: the ingredient texts that prompt
\* construction puts into the request are the raw-materials segment (the
\* text before the first full-width slash, or failing that the first plain
\* slash; the trimmed input when there is none) and the additives segment
\* (the text after it; empty when there is none).
C16_IngredientsSplitAtDelimiter ==
    an_pc = "calling" =>
        an_request.ingredientTexts =
            <<RawMaterialsSegment(an_args.ingredients), AdditivesSegment(an_args.ingredients)>>

\* C20: the credential of a service request is exactly the one the caller
\* supplied in that call, and the outcome of an analysis call is fixed by
\* its arguments whatever the process environment holds: with a key among
\* the arguments the request goes out with that key, without one the call
\* fails.
C20_CredentialFromCaller ==
    /\ an_pc = "calling" => an_request.key = an_args.apiKey
    /\ an_pc = "thrown" => an_args.apiKey = ""
    /\ an_pc \in {"calling", "thrown"} => (an_pc = "calling" <=> an_args.apiKey # "")


\* ------------------------------------------------------------------------
\* Properties of the page (checked under SpecCallers)
\* ------------------------------------------------------------------------

\* C17: under every interleaving of clicks, network completions and the
\* review-reveal timer, at most one network operation started by the page
\* (a product fetch or an analysis request) is in flight.
C17_SingleFlight == fetching + analyzing <= 1

\* C18: whenever a fetch, extraction or analysis step fails or validation
\* rejects an action, the page ends that action with the error section
\* visible and a message that carries the diagnostic text: every step that
\* records a new error leaves showError true.
C18_ErrorShown ==
    [][error' # error => (showError' /\ error'.diagnostic # "")]_vars

\* C19: after a failure the same stage can be retried: a step in which a
\* fetch or extraction fails leaves the Analyze action enabled (isLoading
\* false), and a step in which an analysis fails leaves the Confirm action
\* available (the review section shown) with the reviewed product data
\* unchanged.
C19_RetryFromSameStage ==
    [][/\ (fetching' < fetching /\ timers' = timers) => ~isLoading'
       /\ (analyzing' < analyzing /\ ~showResults') =>
             /\ showReview'
             /\ ~productData'.isNull
             /\ productData' = productData]_vars

\* ------------------------------------------------------------------------
\* Further properties of the requester (checked under SpecRequester)
\* ------------------------------------------------------------------------

\* C21: within one call of callGeminiApi the attempts are strictly
\* sequential: at most one attempt is in flight, and while attempt N+1 is in
\* flight the outcome of each earlier attempt is known and each earlier
\* attempt was followed by its backoff delay.
C21_AttemptsSequential ==
    callee = "gemini" =>
        /\ attempts - Len(outcomes) \in {0, 1}
        /\ attempts - Len(outcomes) = 1 <=> rq_pc = "fetch"
        /\ rq_pc = "fetch" =>
              /\ Len(sleptAfter) = attempts - 1
              /\ Len(delays) = attempts - 1
              /\ \A n \in 1..(attempts - 1) : sleptAfter[n] = n

\* C21 witness: the third attempt is in flight after a transport exception
\* and a retryable status, each followed by its delay.
C21_Witness ==
    /\ callee = "gemini"
    /\ rq_pc = "fetch"
    /\ attempts = 3
    /\ Len(outcomes) = 2
    /\ outcomes[1].type = "exception"
    /\ RetryableStatus(outcomes[2])
    /\ sleptAfter = <<1, 2>>

\* ------------------------------------------------------------------------
\* Further properties of the fetcher (checked under SpecFetcher)
\* ------------------------------------------------------------------------

\* The relay answered with a success status and an empty body.
EmptySuccess(o) == ResponseOk(o) /\ o.body = ""

\* C22: a relay that answers with a success status and an empty body is a
\* failed strategy: its message is recorded in the error list and the next
\* relay is attempted (the call throws after the last); a call that returns
\* from the relay loop returns the body of the first relay, in order, that
\* answered with success and a non-empty body.
C22_EmptyRelayBodyFails ==
    /\ \A k \in 2..Len(results) :
          EmptySuccess(results[k]) =>
              /\ Len(errors) >= k - 1
              /\ errors[k - 1] = [proxy |-> k - 1, text |-> "Empty response from proxy",
                                  status |-> 0]
              /\ IF k < 4 THEN Len(tried) >= k + 1 ELSE ft_pc = "thrown"
    /\ (ft_pc = "returned" /\ Len(results) >= 2) =>
          /\ html = results[Len(results)].body
          /\ html = "<html>"
          /\ \A k \in 2..(Len(results) - 1) :
                ~(ResponseOk(results[k]) /\ results[k].body = "<html>")

\* C22 witness: the direct request threw, the first relay answered 200 with
\* an empty body, and the body of the second relay was returned.
C22_Witness ==
    /\ ft_pc = "returned"
    /\ Len(results) = 3
    /\ results[1].type = "exception"
    /\ EmptySuccess(results[2])
    /\ html = "<html>"
    /\ tried = <<"direct", "allorigins", "corsproxy.io">>

\* ------------------------------------------------------------------------
\* Further properties of the extractor (checked under SpecExtractor)
\* ------------------------------------------------------------------------

\* The trimmed capture of the first label pattern, in declared order, whose
\* capture is non-empty after trimming; <<>> when there is no such pattern.
RECURSIVE FirstNonBlankCapture(_, _)
FirstNonBlankCapture(t, n) ==
    IF n > 3 THEN <<>>
    ELSE IF Trim(PatternCapture(n, t)) # <<>> THEN Trim(PatternCapture(n, t))
    ELSE FirstNonBlankCapture(t, n + 1)

\* C23: the ingredient text is decided by the first label pattern, in
\* declared order, whose capture is non-empty after trimming; a pattern that
\* does not match or whose capture is empty or whitespace-only is skipped
\* and the next pattern is tried.
C23_FirstNonBlankCaptureWins ==
    (ex_pc \in {"returned", "thrown"} /\ FirstNonBlankCapture(doc.text, 1) # <<>>) =>
        /\ ex_pc = "returned"
        /\ ex_result.ingredients = FirstNonBlankCapture(doc.text, 1)

\* The text a occurs in the text b as a contiguous run.
IsRunOf(a, b) == \E k \in 1..(Len(b) - Len(a) + 1) : SubSeq(b, k, k + Len(a) - 1) = a

\* The pattern that decided: the first, in declared order, that matches.
DecidingPattern(t) == CHOOSE n \in 1..3 :
    /\ PatternCapture(n, t) # <<>>
    /\ \A n2 \in 1..(n - 1) : PatternCapture(n2, t) = <<>>

\* The line of t on which the leftmost match of pattern n starts, from the
\* start of the match to the end of that line.
LabelLine(n, t) ==
    LET hits == {p \in 1..Len(t) : PatternAt(n, t, p) # <<>>}
        p == CHOOSE q \in hits : \A q2 \in hits : q <= q2
    IN  SubSeq(t, p, RunEnd(t, p, {"\n"}))

\* C24: ingredient text captured by a label pattern is the text run that
\* follows the label and ends at a line boundary: the returned ingredients
\* hold no line break and are text of the line of the label, never of the
\* lines after it.
C24_CaptureEndsAtLineBoundary ==
    (ex_pc = "returned" /\ FromPatterns(doc.text, 1) # <<>>) =>
        /\ \A k \in 1..Len(ex_result.ingredients) : ex_result.ingredients[k] # "\n"
        /\ IsRunOf(ex_result.ingredients,
                   LabelLine(DecidingPattern(doc.text), doc.text))

\* The rows that hold the label and whose remainder after the label is
\* non-empty after trimming, by index.
RowsWithRemainder(rows) ==
    {n \in 1..Len(rows) : HasLabel(rows[n]) /\ Trim(SplitPart1(rows[n])) # <<>>}

\* C25: the row fallback is consulted exactly when the label patterns
\* produced no ingredient text; the call fails if and only if the patterns
\* produced none and no scanned row that holds the label has a remainder
\* that is non-empty after trimming; otherwise the first such row decides,
\* whatever blank rows precede it.
C25_RowFallback ==
    (ex_pc \in {"returned", "thrown"} /\ FromPatterns(doc.text, 1) = <<>>) =>
        IF RowsWithRemainder(Rows(doc)) = {}
        THEN ex_pc = "thrown"
        ELSE /\ ex_pc = "returned"
             /\ \E n \in RowsWithRemainder(Rows(doc)) :
                   /\ \A n2 \in RowsWithRemainder(Rows(doc)) : n <= n2
                   /\ ex_result.ingredients = Trim(SplitPart1(Rows(doc)[n]))

\* ------------------------------------------------------------------------
\* Further properties of the page (checked under SpecCallers)
\* ------------------------------------------------------------------------

\* C26: whenever the review section is visible the page holds product data
\* (not null) and no fetch or extraction is running: the review is never
\* shown during an Analyze action or after a failed one, whose product data
\* is null.
C26_ReviewHasProductData ==
    showReview => (~productData.isNull /\ fetching = 0)

\* A step of the page in which an edit of the ingredients text takes effect:
\* the product data changes while no fetch starts or ends.
IngredientsEdited ==
    /\ caller = "page"
    /\ productData' # productData
    /\ fetching' = fetching

\* A step of the page in which an analysis request goes out.
AnalysisRequested ==
    /\ caller = "page"
    /\ analyzing' > analyzing

\* C27: an edit of the ingredients text in the review replaces only the
\* ingredients of the held product data: product name, source URL, analysis
\* result, loading flag and the visibility flags keep their values, and
\* without product data nothing changes; the next analysis request carries
\* exactly the text the product data then holds.
C27_EditReplacesOnlyIngredients ==
    [][ /\ IngredientsEdited =>
             /\ ~productData.isNull
             /\ productData' = [productData EXCEPT !.ingredients = productData'.ingredients]
             /\ UNCHANGED <<analysisResult, isLoading, showProgress, showReview,
                            showResults, showError>>
        /\ AnalysisRequested => lastRequest'.ingredients = productData.ingredients
      ]_vars

\* An edit has acted: the held text is blank, which no extraction returns,
\* and the review is still shown with the name and the source URL in place.
C27_Witness ==
    /\ showReview
    /\ ~productData.isNull
    /\ productData.ingredients = <<" ">>
    /\ productData.productName = <<"n">>
    /\ productData.sourceUrl = "url"

\* The sections of the page that are visible.
VisibleSections ==
    {s \in {"progress", "review", "results", "error"} :
        \/ s = "progress" /\ showProgress
        \/ s = "review" /\ showReview
        \/ s = "results" /\ showResults
        \/ s = "error" /\ showError}

\* C28: in every reachable state of the page at most one of the progress,
\* review, results and error sections is visible.
C28_AtMostOneSection ==
    Cardinality(VisibleSections) <= 1

\* ------------------------------------------------------------------------
\* Properties of the verdict banner (checked under SpecBanner)
\* ------------------------------------------------------------------------

\* The OK label, with or without the Export prefix of the prompt's labels.
IsOkLabel(verdict) == verdict \in {<<"OK">>, <<"Export", " ", "OK">>}

\* C29: the verdict banner is rendered with success severity only for the
\* OK label: a CONDITIONAL, NOT OK or unrecognised verdict (such as Unknown)
\* is never shown as success.
C29_SuccessOnlyForOk ==
    (bn_pc = "rendered" /\ bn_severity = "success")
        => IsOkLabel(bn_props.result.verdict)

\* ------------------------------------------------------------------------
\* Properties of the credential check (checked under SpecAnalysis)
\* ------------------------------------------------------------------------

\* The call has no credential available: analyzeWithGemini without an apiKey
\* argument and without GEMINI_API_KEY, analyzeWithOpenAI without
\* OPENAI_API_KEY.
NoCredential ==
    \/ /\ an_args.provider = "gemini"
       /\ an_args.apiKey = ""
       /\ an_env.GEMINI_API_KEY = ""
    \/ /\ an_args.provider = "openai"
       /\ an_env.OPENAI_API_KEY = ""

\* C30: an analysis call with no credential available fails before any
\* request is handed to the network: it has thrown and no request exists.
C30_NoCredentialNoRequest ==
    (an_pc # "idle" /\ NoCredential) => (an_pc = "thrown" /\ an_request = NoQuery)

\* analyzeWithGemini has been called without any credential and has thrown.
C30_Witness ==
    /\ an_pc = "thrown"
    /\ an_args.provider = "gemini"
    /\ NoCredential

\* The page side of C30 (checked under SpecCallers): with an empty API key
\* field no step of the page starts a fetch or an analysis request.
C30_PageNeedsKey ==
    [][ (caller = "page" /\ apiKey = "")
          => (fetching' <= fetching /\ analyzing' <= analyzing /\ lastRequest' = lastRequest)
      ]_vars

====
